---- MODULE Spec2Model ----
(***************************************************************************)
(* model-describer (whitebox): WhiteBoxBase (base.py) with its two         *)
(* subclasses WhiteBoxError and WhiteBoxSensitivity (WhiteBox.py).         *)
(*                                                                         *)
(* Spec       the instance life cycle: construction, run() and the two     *)
(*            result getters.  Tables are carried by their column lists,   *)
(*            their categorical typing and the provenance of the 'diff'    *)
(*            column.                                                      *)
(* SpecSlice  the bucketing of one group's rows: _continuous_slice and the *)
(*            categorical groupby of _var_check with the Bucket Reducer of *)
(*            either subclass, applied to concrete rows.                   *)
(* SpecDriver the Driver (_var_check of both subclasses) called repeatedly *)
(*            on concrete scored tables: perturbation, re-scoring, delta,  *)
(*            grouping, reduction and the 'null' marker.                   *)
(*                                                                         *)
(* WhiteBox.py imports its base class from a module whitebox_base and      *)
(* names two parameters differently (featuredict, groupby) from base.py    *)
(* (keepfeaturelist, groupby_var); the model binds them by role.           *)
(***************************************************************************)
EXTENDS Integers, Sequences, FiniteSets, TLC

VARIABLES
    obj,          \* the instance the caller holds (its __dict__)
    usable,       \* TRUE once a constructor has returned normally
    ctor,         \* the last constructor call: its arguments and the object as it left it
    last,         \* the last finished call: its name and the error it raised
    pc,           \* position inside run(): "idle", "loop" or "finish"
    loc,          \* run()'s local variables
    calls,        \* the calls run() has made to the Driver and the Accuracy Aggregator
    hist,         \* what has happened to the instance so far
    slice,        \* SpecSlice: the group being bucketed and the result
    drv           \* SpecDriver: the scored tables and the Driver's calls on them

vars == <<obj, usable, ctor, last, pc, loc, calls, hist, slice, drv>>

----------------------------------------------------------------------------
(* Helpers over sequences.                                                 *)

Range(s) == {s[k] : k \in 1..Len(s)}

Contains(s, x) == \E k \in 1..Len(s) : s[k] = x

\* DataFrame column assignment df[name] = ...: a new column goes last.
AddCol(cols, name) == IF Contains(cols, name) THEN cols ELSE Append(cols, name)

RECURSIVE FilterOut(_, _)
FilterOut(s, drop) ==
    IF s = <<>> THEN <<>>
    ELSE IF Head(s) \in drop THEN FilterOut(Tail(s), drop)
         ELSE <<Head(s)>> \o FilterOut(Tail(s), drop)

----------------------------------------------------------------------------
(* Inputs.                                                                 *)

\* The input tables: cat_df's columns in order, which of them are
\* categorical-typed, and model_df's columns (one-hot encoded).
Datasets ==
    { [cat_cols   |-> <<"x", "c", "g", "y">>,
       cats       |-> {"c", "g"},
       model_cols |-> <<"x", "c_a", "c_b", "g_p", "g_q", "y">>,
       ydepend    |-> "y"],
      [cat_cols   |-> <<"g", "x", "h", "y">>,
       cats       |-> {"g", "h"},
       model_cols |-> <<"x", "g_p", "g_q", "h_u", "h_v", "y">>,
       ydepend    |-> "y"] }

GroupNames == {"g", "h"}

\* groupbyvars as supplied: a list of distinct names of at most two
\* grouping columns, possibly empty.
GroupByChoices(d) ==
    LET G == GroupNames \cap Range(d.cat_cols) IN
    {<<>>} \cup {<<a>> : a \in G}
           \cup {<<a, b>> : <<a, b>> \in {p \in G \X G : p[1] # p[2]}}

StdNums == {-3, 1, 5}

ErrorTypes == {"RMSE", "R2"}

OutputTypes == {"html", "raw_data", "agg_data", "json"}

OutputPaths == {"", "out.html"}

Classes == {"WhiteBoxError", "WhiteBoxSensitivity"}

ModelTypes == {"regression", "classification"}

\* The fitted model: the columns whose perturbed table it refuses to score.
RejectChoices == {{}, {"x"}}

----------------------------------------------------------------------------
(* Settings consumed from whitebox.utils.                                  *)

supported_agg_errors == {"MSE", "MAE", "RMSE", "MED", "MEAN"}

supported_out_types == {"html", "raw_data", "agg_data"}

AllowedStdNums == {-3, -2, -1, 1, 2, 3}

----------------------------------------------------------------------------
(* The instance.                                                           *)

NoTable == [cols |-> <<>>, cats |-> {}, diff |-> "none"]

NoPercentiles == [percentiles |-> <<>>, group_percentiles_out |-> <<>>]

\* An object on which no attribute has been set.
Blank ==
    [ attrs        |-> {},
      called_class |-> "none",
      std_num      |-> 0,
      model_df     |-> NoTable,
      cat_df       |-> NoTable,
      modelobj     |-> [rejects |-> {}],
      model_type   |-> "none",
      error_type   |-> "none",
      ydepend      |-> "none",
      groupbyvars  |-> <<>>,
      Percentiles  |-> NoPercentiles,
      agg_df       |-> <<>>,
      raw_df       |-> <<>>,
      outputs      |-> <<>> ]

hasattr(self, name) == name \in self.attrs

\* percentiles.Percentiles(cat_df, groupbyvars).population_percentiles()
population_percentiles(cat_df, groupbyvars) ==
    [ percentiles           |-> <<"percentiles">>,
      group_percentiles_out |-> [k \in 1..Len(groupbyvars) |-> groupbyvars[k]] ]

\* Everything WhiteBoxBase.__init__ assigns once its two checks have passed.
BaseAssign(self, a) ==
    [self EXCEPT
        !.attrs = @ \cup {"_model_df", "_keepfeaturelist", "_cat_df", "_modelobj",
                          "predict_engine", "model_type", "aggregate_func",
                          "error_type", "ydepend", "groupbyvars", "called_class",
                          "Percentiles", "agg_df", "raw_df"},
        !.model_df     = [cols |-> a.data.model_cols, cats |-> {}, diff |-> "none"],
        !.cat_df       = [cols |-> a.data.cat_cols, cats |-> a.data.cats, diff |-> "none"],
        !.modelobj     = [rejects |-> a.rejects],
        !.model_type   = a.model_type,
        !.error_type   = a.error_type,
        !.ydepend      = a.data.ydepend,
        !.groupbyvars  = a.groupbyvars,
        !.called_class = a.class,
        !.Percentiles  = population_percentiles(a.data.cat_cols, a.groupbyvars),
        !.agg_df       = <<>>,
        !.raw_df       = <<>>]

BaseInitCopiesFirst(self, a) ==
    LET copied == [self EXCEPT
                     !.attrs    = @ \cup {"_model_df", "_cat_df"},
                     !.model_df = [cols |-> a.data.model_cols, cats |-> {}, diff |-> "none"],
                     !.cat_df   = [cols |-> a.data.cat_cols, cats |-> a.data.cats, diff |-> "none"]]
    IN IF a.error_type \notin supported_agg_errors
       THEN [raised |-> "error_type", self |-> copied]
       ELSE IF a.groupbyvars = <<>>
       THEN [raised |-> "groupbyvars", self |-> copied]
       ELSE [raised |-> "none", self |-> BaseAssign(self, a)]

\* The constructor of WhiteBoxBase, from the state `self` the subclass
\* constructor has reached.  The result is the object with what was
\* assigned before the constructor returned or raised.
WhiteBoxBase__init__(self, a) ==
    IF a.error_type \notin supported_agg_errors
    THEN [raised |-> "error_type", self |-> self]
    ELSE IF a.groupbyvars = <<>>
    THEN [raised |-> "groupbyvars", self |-> self]
    ELSE [raised |-> "none", self |-> BaseAssign(self, a)]

WhiteBoxError__init__(a) == WhiteBoxBase__init__(Blank, a)

SensInitLateCheck(a) ==
    LET r == WhiteBoxBase__init__([Blank EXCEPT !.attrs = {"std_num"}, !.std_num = a.std_num], a)
    IN IF r.raised = "none" /\ a.std_num \notin AllowedStdNums
       THEN [raised |-> "std_num", self |-> r.self]
       ELSE r

WhiteBoxSensitivity__init__(a) ==
    IF a.std_num \notin AllowedStdNums
    THEN [raised |-> "std_num", self |-> Blank]
    ELSE WhiteBoxBase__init__([Blank EXCEPT !.attrs = {"std_num"}, !.std_num = a.std_num], a)

CtorArgs ==
    { a \in [ class       : Classes,
              data        : Datasets,
              groupbyvars : UNION {GroupByChoices(d) : d \in Datasets},
              error_type  : ErrorTypes,
              std_num     : StdNums,
              model_type  : ModelTypes,
              rejects     : RejectChoices ] :
        /\ a.groupbyvars \in GroupByChoices(a.data)
        /\ a.class = "WhiteBoxError" => a.std_num = 1 }

\* Dynamic dispatch on the class being constructed.
Constructor(a) ==
    IF a.class = "WhiteBoxSensitivity"
    THEN WhiteBoxSensitivity__init__(a)
    ELSE WhiteBoxError__init__(a)

----------------------------------------------------------------------------
(* run(): the collaborators it calls.                                      *)

\* fmt_sklearn_preds: one prediction pass; the predictions are attached to
\* both tables and, for a regression model, the signed errors to cat_df.
fmt_sklearn_preds(model_type, model_df, cat_df) ==
    [ cat_df   |-> [cat_df EXCEPT !.cols =
                      IF model_type = "regression"
                      THEN AddCol(AddCol(@, "predictedYSmooth"), "errors")
                      ELSE AddCol(@, "predictedYSmooth")],
      model_df |-> [model_df EXCEPT !.cols = AddCol(@, "predictedYSmooth")] ]

\* wb_utils.create_accuracy: one aggregate error record per group variable.
create_accuracy(model_type, cat_df, error_type, groupby) ==
    [groupByVarName |-> groupby, ErrType |-> error_type]

\* formatting.FmtJson.flatten_json: one section per column, holding the
\* per-group outputs in the order they were collected.
flatten_json(colhold) ==
    [kind |-> "column", col |-> colhold[1].col, data |-> colhold]

\* formatting.FmtJson.to_json(insights_df, html_type='accuracy', ...)
insights_to_json(insights_df) ==
    [kind |-> "accuracy", col |-> "none", data |-> insights_df]

NoJson ==
    [col |-> "none", groupByVarName |-> "none", vartype |-> "none",
     html_type |-> "none", incremental_val |-> "none"]

MissingAny(cols, col_indices) == \E k \in 1..Len(col_indices) : ~Contains(cols, col_indices[k])

is_categorical_dtype(cat_df, col) == col \in cat_df.cats

\* WhiteBoxError._var_check: the Driver in error mode.  The result is the
\* error raised, the live cat_df as the call leaves it, and the output.
WhiteBoxError_var_check(self, col, groupby) ==
    LET col_indices == <<col, "errors", "predictedYSmooth", groupby>>
        vartype     == IF is_categorical_dtype(self.cat_df, col)
                       THEN "Categorical" ELSE "Continuous"
    IN IF MissingAny(self.cat_df.cols, col_indices)
       THEN [raised |-> "KeyError", cat_df |-> self.cat_df, json_out |-> NoJson]
       ELSE [raised   |-> "none",
             cat_df   |-> self.cat_df,
             json_out |-> [col |-> col, groupByVarName |-> groupby, vartype |-> vartype,
                           html_type |-> "error", incremental_val |-> "None"]]

\* modelobj.predict on the perturbed copy.
predict_rejects(self, col) == col \in self.modelobj.rejects

\* WhiteBoxSensitivity._var_check: the Driver in sensitivity mode.  The
\* perturbation is made on copydf, a deep copy of model_df; the delta
\* new_predictions - predictedYSmooth is assigned to self.cat_df['diff'].
WhiteBoxSensitivity_var_check(self, col, groupby) ==
    LET col_indices == <<col, "errors", "predictedYSmooth", groupby, "diff">>
        categorical == is_categorical_dtype(self.cat_df, col)
        scored      == [cols |-> AddCol(self.cat_df.cols, "diff"),
                        cats |-> self.cat_df.cats, diff |-> col]
    IN IF ~categorical /\ ~Contains(self.model_df.cols, col)
       THEN [raised |-> "KeyError", cat_df |-> self.cat_df, json_out |-> NoJson]
       ELSE IF predict_rejects(self, col)
       THEN [raised |-> "ScoringError", cat_df |-> self.cat_df, json_out |-> NoJson]
       ELSE IF MissingAny(scored.cols, col_indices)
       THEN [raised |-> "KeyError", cat_df |-> scored, json_out |-> NoJson]
       ELSE [raised   |-> "none",
             cat_df   |-> scored,
             json_out |-> [col |-> col, groupByVarName |-> groupby,
                           vartype |-> IF categorical THEN "Categorical" ELSE "Continuous",
                           html_type |-> "sensitivity",
                           incremental_val |-> IF categorical THEN "mode" ELSE "std"]]

\* self._var_check: the subclass's Driver.
var_check(self, col, groupby) ==
    IF self.called_class = "WhiteBoxSensitivity"
    THEN WhiteBoxSensitivity_var_check(self, col, groupby)
    ELSE WhiteBoxError_var_check(self, col, groupby)

----------------------------------------------------------------------------
(* The life cycle: construction, run() and the getters.                    *)

NoArgs ==
    [ class |-> "none", data |-> CHOOSE d \in Datasets : TRUE, groupbyvars |-> <<>>,
      error_type |-> "none", std_num |-> 0, model_type |-> "none", rejects |-> {} ]

NoLoc ==
    [ output_type |-> "none", output_path |-> "none", to_iter_cols |-> <<>>,
      i |-> 0, j |-> 0, colhold |-> <<>>, placeholder |-> <<>>, insights_df |-> <<>> ]

NoHist == [completed |-> FALSE, failed |-> FALSE, published |-> FALSE, iter |-> <<>>]

NoSlice == [stage |-> "none", path |-> "none", rows |-> <<>>, out |-> <<>>]

NoDrv == [stage |-> "none"]

Init ==
    /\ obj = Blank
    /\ usable = FALSE
    /\ ctor = [args |-> NoArgs, raised |-> "none", self |-> Blank]
    /\ last = [op |-> "none", arg |-> "none", err |-> "none"]
    /\ pc = "idle"
    /\ loc = NoLoc
    /\ calls = <<>>
    /\ hist = NoHist
    /\ slice = NoSlice
    /\ drv = NoDrv

\* WB = WhiteBoxError(...) or WhiteBoxSensitivity(...): a constructor that
\* raises leaves the caller without an instance, and the caller may try
\* again; the life of one instance is followed from there.
Construct(a) ==
    /\ pc = "idle" /\ ~usable
    /\ LET r == Constructor(a) IN
        /\ ctor' = [args |-> a, raised |-> r.raised, self |-> r.self]
        /\ last' = [op |-> "construct", arg |-> a.class, err |-> r.raised]
        /\ IF r.raised = "none"
           THEN obj' = r.self /\ usable' = TRUE /\ hist' = NoHist /\ calls' = <<>>
           ELSE UNCHANGED <<obj, usable, hist, calls>>
    /\ UNCHANGED <<pc, loc, slice, drv>>

\* The columns run() iterates: cat_df's columns without the derived ones.
to_iter_cols(self, cat_df) ==
    FilterOut(cat_df.cols, {"errors", "predictedYSmooth", self.ydepend})

EntryPredictsFirst(output_type, output_path) ==
    LET p == fmt_sklearn_preds(obj.model_type, obj.model_df, obj.cat_df) IN
    /\ usable /\ pc = "idle"
    /\ obj' = [obj EXCEPT !.cat_df = p.cat_df, !.model_df = p.model_df]
    /\ IF output_type \notin supported_out_types
       THEN /\ last' = [op |-> "run", arg |-> output_type, err |-> "ValueError"]
            /\ hist' = [hist EXCEPT !.failed = TRUE]
            /\ UNCHANGED <<pc, loc, calls>>
       ELSE /\ loc' = [NoLoc EXCEPT !.output_type = output_type, !.output_path = output_path,
                          !.to_iter_cols = to_iter_cols(obj, p.cat_df), !.i = 1, !.j = 1]
            /\ pc' = IF to_iter_cols(obj, p.cat_df) = <<>> THEN "finish" ELSE "loop"
            /\ calls' = <<>>
            /\ UNCHANGED <<last, hist>>
    /\ UNCHANGED <<usable, ctor, slice, drv>>

\* run(), lines 274-301: the output type is checked, then the prediction
\* pass attaches predictions and errors, then the columns are chosen.
RunEntry(output_type, output_path) ==
    /\ usable /\ pc = "idle"
    /\ IF output_type \notin supported_out_types
       THEN /\ last' = [op |-> "run", arg |-> output_type, err |-> "ValueError"]
            /\ hist' = [hist EXCEPT !.failed = TRUE]
            /\ UNCHANGED <<obj, pc, loc, calls>>
       ELSE LET p == fmt_sklearn_preds(obj.model_type, obj.model_df, obj.cat_df) IN
            /\ obj' = [obj EXCEPT !.cat_df = p.cat_df, !.model_df = p.model_df]
            /\ loc' = [NoLoc EXCEPT !.output_type = output_type, !.output_path = output_path,
                          !.to_iter_cols = to_iter_cols(obj, p.cat_df), !.i = 1, !.j = 1]
            /\ pc' = IF to_iter_cols(obj, p.cat_df) = <<>> THEN "finish" ELSE "loop"
            /\ calls' = <<>>
            /\ UNCHANGED <<last, hist>>
    /\ UNCHANGED <<usable, ctor, slice, drv>>

DriverErrorSwallowed(r) == FALSE

\* run(), lines 312-316: _var_check is called with no handler around it,
\* so whatever it raises leaves run().
driver_raises(r) == r.raised # "none"

PairAlwaysDriver(col, groupby_var) == TRUE

\* run(), line 311: the pair goes to the Driver unless the column is the
\* group variable itself.
PairGoesToDriver(col, groupby_var) == col # groupby_var

ColumnEndDropsSingle(placeholder, colhold) ==
    IF Len(colhold) > 1 THEN Append(placeholder, flatten_json(colhold)) ELSE placeholder

ColumnEndPrepends(placeholder, colhold) ==
    IF Len(colhold) > 0 THEN <<flatten_json(colhold)>> \o placeholder ELSE placeholder

\* run(), lines 335-336: at the end of a column its outputs become one
\* section, unless there are none.
ColumnEnd(placeholder, colhold) ==
    IF Len(colhold) > 0 THEN Append(placeholder, flatten_json(colhold)) ELSE placeholder

\* run(), lines 303-339: one turn of the inner loop, with the end of the
\* column when the pair is the column's last.  An error raised by the
\* Driver leaves run().
RunPair ==
    /\ pc = "loop"
    /\ LET col     == loc.to_iter_cols[loc.i]
           gv      == obj.groupbyvars[loc.j]
           driver  == PairGoesToDriver(col, gv)
           r       == var_check(obj, col, gv)
           acc     == create_accuracy(obj.model_type, obj.cat_df, obj.error_type, gv)
           colhold == IF driver THEN Append(loc.colhold, r.json_out) ELSE loc.colhold
           insights == IF driver THEN loc.insights_df ELSE Append(loc.insights_df, acc)
           lastgv  == loc.j = Len(obj.groupbyvars)
           lastcol == loc.i = Len(loc.to_iter_cols)
       IN /\ calls' = Append(calls, [fn  |-> IF driver THEN "_var_check" ELSE "create_accuracy",
                                     col |-> col, groupby |-> gv])
          /\ IF driver /\ driver_raises(r)
             THEN /\ obj' = [obj EXCEPT !.cat_df = r.cat_df]
                  /\ pc' = "idle"
                  /\ loc' = NoLoc
                  /\ last' = [op |-> "run", arg |-> loc.output_type, err |-> r.raised]
                  /\ hist' = [hist EXCEPT !.failed = TRUE]
             ELSE /\ obj' = IF driver THEN [obj EXCEPT !.cat_df = r.cat_df] ELSE obj
                  /\ loc' = IF lastgv
                            THEN [loc EXCEPT !.placeholder = ColumnEnd(@, colhold),
                                             !.colhold = <<>>, !.insights_df = insights,
                                             !.i = @ + 1, !.j = 1]
                            ELSE [loc EXCEPT !.colhold = colhold, !.insights_df = insights,
                                             !.j = @ + 1]
                  /\ pc' = IF lastgv /\ lastcol THEN "finish" ELSE "loop"
                  /\ UNCHANGED <<last, hist>>
    /\ UNCHANGED <<usable, ctor, slice, drv>>

\* _save: the html report is written to fpath; open() refuses the empty path.
save_raises(fpath) == fpath = ""

TrailingFirst(self, placeholder, insights_df) ==
    << insights_to_json(insights_df),
       [kind |-> "percentiles", col |-> "none", data |-> self.Percentiles.percentiles],
       [kind |-> "group_percentiles", col |-> "none",
        data |-> self.Percentiles.group_percentiles_out] >> \o placeholder

\* run(), lines 343-352: the accuracy section and the percentile metadata
\* are appended after the column sections.
Trailing(self, placeholder, insights_df) ==
    placeholder \o
    << insights_to_json(insights_df),
       [kind |-> "percentiles", col |-> "none", data |-> self.Percentiles.percentiles],
       [kind |-> "group_percentiles", col |-> "none",
        data |-> self.Percentiles.group_percentiles_out] >>

\* run(), lines 341-361: the Result Tree is assigned to self.outputs, then
\* the report is saved or the requested table returned.
RunFinish ==
    /\ pc = "finish"
    /\ obj' = [obj EXCEPT !.outputs = Trailing(obj, loc.placeholder, loc.insights_df),
                          !.attrs = @ \cup {"outputs"}]
    /\ LET raised == IF loc.output_type = "html" /\ save_raises(loc.output_path)
                     THEN "FileNotFoundError" ELSE "none"
       IN /\ last' = [op |-> "run", arg |-> loc.output_type, err |-> raised]
          /\ hist' = [completed |-> hist.completed \/ raised = "none",
                      failed    |-> hist.failed \/ raised # "none",
                      published |-> TRUE,
                      iter      |-> loc.to_iter_cols]
    /\ pc' = "idle"
    /\ loc' = NoLoc
    /\ UNCHANGED <<usable, ctor, calls, slice, drv>>

GetterSkipsGuard(self) == "none"

\* get_raw_df / get_agg_df, lines 370-371 and 382-383.
getter_raises(self) == IF hasattr(self, "outputs") THEN "none" ELSE "RuntimeError"

GetRawDf ==
    /\ usable /\ pc = "idle"
    /\ last' = [op |-> "get_raw_df", arg |-> "none", err |-> getter_raises(obj)]
    /\ UNCHANGED <<obj, usable, ctor, pc, loc, calls, hist, slice, drv>>

GetAggDf ==
    /\ usable /\ pc = "idle"
    /\ last' = [op |-> "get_agg_df", arg |-> "none", err |-> getter_raises(obj)]
    /\ UNCHANGED <<obj, usable, ctor, pc, loc, calls, hist, slice, drv>>

Next ==
    \/ \E a \in CtorArgs : Construct(a)
    \/ \E t \in OutputTypes, f \in OutputPaths : RunEntry(t, f)
    \/ RunPair
    \/ RunFinish
    \/ GetRawDf
    \/ GetAggDf

Spec == Init /\ [][Next]_vars

----------------------------------------------------------------------------
(* Bucketing one group's rows.  A row is [x, g, errors, predictedYSmooth]: *)
(* the value of the column being analysed, the value of the group          *)
(* variable, the signed error and the prediction.  Values are integers;    *)
(* NaN stands for a missing value.                                         *)

NaN == 0 - 1000000

IsNaN(v) == v = NaN

\* The values of a column in ascending order: the k-th is the smallest
\* value that at least k rows do not exceed.
SortValues(vals) ==
    LET V == {vals[i] : i \in 1..Len(vals)}
        leq(v) == Cardinality({i \in 1..Len(vals) : vals[i] <= v})
    IN [k \in 1..Len(vals) |->
          CHOOSE v \in V : leq(v) >= k /\ \A w \in V : (leq(w) >= k => v <= w)]

\* sorted(list(set(...))): the distinct values in ascending order.
SortedOfSet(S) ==
    [k \in 1..Cardinality(S) |-> CHOOSE v \in S : Cardinality({w \in S : w <= v}) = k]

\* Cut-points are kept as hundredths, so that a percentile interpolated
\* between two integer values is exact.
Scale == 100

NumPercentiles == 100

\* percentiles.create_percentile_vecs: the 0th to the 99th percentile of
\* the values, interpolated linearly between neighbours, in hundredths.
create_percentile_vecs(vals) ==
    LET S == SortValues(vals)
        n == Len(vals)
    IN [p \in 1..NumPercentiles |->
          LET pos == (p - 1) * (n - 1)
              k   == pos \div 100
              r   == pos % 100
          IN IF r = 0 THEN Scale * S[k + 1]
             ELSE Scale * S[k + 1] + r * (S[k + 2] - S[k + 1])]

DigitizeDescending(v, bins) == Cardinality({k \in 1..Len(bins) : bins[k] >= Scale * v})

DigitizeLeftClosed(v, bins) == Cardinality({k \in 1..Len(bins) : bins[k] <= Scale * v})

\* np.digitize(v, bins, right=True) over increasing bins: the index i with
\* bins[i-1] < v <= bins[i], counted from 0.
digitize(v, bins) == Cardinality({k \in 1..Len(bins) : bins[k] < Scale * v})

GroupbyFirstSeen(keys) ==
    LET present  == {keys[i] : i \in 1..Len(keys)} \ {NaN}
        first(v) == CHOOSE i \in 1..Len(keys) :
                        keys[i] = v /\ \A j \in 1..(i - 1) : keys[j] # v
        nth(k)   == CHOOSE v \in present :
                        Cardinality({w \in present : first(w) <= first(v)}) = k
    IN [k \in 1..Cardinality(present) |->
          [key |-> nth(k), idx |-> {i \in 1..Len(keys) : keys[i] = nth(k)}]]

\* DataFrame.groupby(keys): one bucket per distinct key in ascending order,
\* holding the positions of the rows with that key; rows whose key is
\* missing belong to no bucket.
DataFrame_groupby(keys) ==
    LET present == SortedOfSet({keys[i] : i \in 1..Len(keys)} \ {NaN})
    IN [k \in 1..Len(present) |->
          [key |-> present[k], idx |-> {i \in 1..Len(keys) : keys[i] = present[k]}]]

RECURSIVE SumRange(_, _, _, _)
SumRange(f, idx, lo, hi) ==
    IF lo > hi THEN 0
    ELSE IF lo = hi THEN (IF lo \in idx THEN f[lo] ELSE 0)
    ELSE LET mid == (lo + hi) \div 2
         IN SumRange(f, idx, lo, mid) + SumRange(f, idx, mid + 1, hi)

\* The sum of f over the positions in idx.
SumOver(f, idx) == SumRange(f, idx, 1, Len(f))

\* np.mean of a column that may hold missing values: the mean of the
\* present ones as sum over count; a count of 0 is NaN.
Mean(f, idx) ==
    LET present == {i \in idx : ~IsNaN(f[i])}
    IN [sum |-> SumOver(f, present), n |-> Cardinality(present)]

SeriesMin(f, idx) ==
    LET present == {f[i] : i \in idx} \ {NaN}
    IN IF present = {} THEN NaN ELSE CHOOSE v \in present : \A w \in present : v <= w

\* Series.max(): the largest value present, NaN when there is none.
SeriesMax(f, idx) ==
    LET present == {f[i] : i \in idx} \ {NaN}
    IN IF present = {} THEN NaN ELSE CHOOSE v \in present : \A w \in present : w <= v

\* Series.mode(): the most frequent values present, in ascending order;
\* several when they are as frequent, none when no value is present.
SeriesModes(f, idx) ==
    LET present == {f[i] : i \in idx} \ {NaN}
        freq(v) == Cardinality({i \in idx : f[i] = v})
    IN SortedOfSet({v \in present : \A w \in present : freq(w) <= freq(v)})

\* Series.mode().values[0], line 395: the smallest of the most frequent
\* values present.
SeriesMode(f, idx) ==
    LET present == {f[i] : i \in idx} \ {NaN}
        freq(v) == Cardinality({i \in idx : f[i] = v})
        top     == {v \in present : \A w \in present : freq(w) <= freq(v)}
    IN IF present = {} THEN NaN ELSE CHOOSE v \in top : \A w \in top : v <= w

ErrorsNotBelowZero(e) == ~IsNaN(e) /\ e >= 0

\* errors[errors > 0] and errors[errors < 0], line 131: the rows kept on
\* the positive and on the negative side.
errors_above_zero(e) == ~IsNaN(e) /\ e > 0

errors_below_zero(e) == ~IsNaN(e) /\ e < 0

\* DataFrame({col: scalar, groupby: Series, ...}), lines 157 and 355: one
\* row per entry of the Series, the scalars repeated in every row.
DataFrame_scalar_series(x, gs, rest) ==
    [k \in 1..Len(gs) |-> [rest EXCEPT !.x = x, !.g = gs[k]]]

\* DataFrame({col: Series, groupby: Series, ...}), line 365: one row per
\* position of the longer Series, the shorter one filled up with NaN.
DataFrame_series_series(xs, gs, rest) ==
    LET n == IF Len(xs) > Len(gs) THEN Len(xs) ELSE Len(gs)
    IN [k \in 1..n |-> [rest EXCEPT !.x = IF k <= Len(xs) THEN xs[k] ELSE NaN,
                                    !.g = IF k <= Len(gs) THEN gs[k] ELSE NaN]]

\* The frames that groupby(...).apply collected, one under the other.
RECURSIVE ConcatRange(_, _, _)
ConcatRange(frames, lo, hi) ==
    IF lo > hi THEN <<>>
    ELSE IF lo = hi THEN frames[lo]
    ELSE LET mid == (lo + hi) \div 2
         IN ConcatRange(frames, lo, mid) \o ConcatRange(frames, mid + 1, hi)

concat(frames) == ConcatRange(frames, 1, Len(frames))

\* WhiteBoxError._transform_function: the errors of a bucket are split
\* into the positive and the negative ones and each side is averaged.  The
\* result is a frame: for a categorical column the one row of means, for a
\* continuous column one row per mode of the group variable.
WhiteBoxError_transform_function(group, idx, vartype) ==
    LET errPos == [i \in 1..Len(group) |->
                      IF errors_above_zero(group[i].errors)
                      THEN group[i].errors ELSE NaN]
        errNeg == [i \in 1..Len(group) |->
                      IF errors_below_zero(group[i].errors)
                      THEN group[i].errors ELSE NaN]
        pred   == [i \in 1..Len(group) |-> group[i].predictedYSmooth]
        x      == [i \in 1..Len(group) |-> group[i].x]
        g      == [i \in 1..Len(group) |-> group[i].g]
        means  == [ x |-> NaN, g |-> NaN,
                    predictedYSmooth |-> Mean(pred, idx),
                    errPos |-> Mean(errPos, idx),
                    errNeg |-> Mean(errNeg, idx) ]
    IN IF vartype = "Categorical"
       THEN <<means>>
       ELSE DataFrame_scalar_series(SeriesMax(x, idx), SeriesModes(g, idx), means)

\* WhiteBoxSensitivity._transform_function: the bucket's column value (the
\* largest for a continuous column, the most frequent for a categorical
\* one), its most frequent group value, and the mean of the deltas.  The
\* result is a frame with one row per mode.
WhiteBoxSensitivity_transform_function(group, idx, vartype) ==
    LET diff == [i \in 1..Len(group) |-> group[i].diff]
        x    == [i \in 1..Len(group) |-> group[i].x]
        g    == [i \in 1..Len(group) |-> group[i].g]
        mean == [ x |-> NaN, g |-> NaN, predictedYSmooth |-> Mean(diff, idx) ]
    IN IF vartype = "Continuous"
       THEN DataFrame_scalar_series(SeriesMax(x, idx), SeriesModes(g, idx), mean)
       ELSE DataFrame_series_series(SeriesModes(x, idx), SeriesModes(g, idx), mean)

\* self._transform_function: the subclass's Bucket Reducer.
transform_function(self, group, idx, vartype) ==
    IF self.called_class = "WhiteBoxSensitivity"
    THEN WhiteBoxSensitivity_transform_function(group, idx, vartype)
    ELSE WhiteBoxError_transform_function(group, idx, vartype)

BinThreshold == 100

UsePercentilesFromHundred(n) == n >= BinThreshold

\* _continuous_slice, line 191: percentile bins for more than 100 rows.
UsePercentiles(n) == n > BinThreshold

\* _continuous_slice: the rows of one group are given a bucket id each,
\* grouped by it, and every bucket is reduced.
_continuous_slice(self, group) ==
    LET n == Len(group)
        group_col_vals == [i \in 1..n |-> group[i].x]
        group_percentiles ==
            IF UsePercentiles(n)
            THEN LET vecs == create_percentile_vecs(group_col_vals)
                 IN SortedOfSet({vecs[p] : p \in 1..NumPercentiles})
            ELSE <<>>
        fixed_bins ==
            IF UsePercentiles(n)
            THEN [i \in 1..n |-> digitize(group_col_vals[i], group_percentiles)]
            ELSE group_col_vals
        buckets == DataFrame_groupby(fixed_bins)
    IN [ group_percentiles |-> group_percentiles,
         fixed_bins |-> fixed_bins,
         buckets    |-> buckets,
         errors_out |-> concat([k \in 1..Len(buckets) |->
                           transform_function(self, group, buckets[k].idx, "Continuous")]) ]

\* _var_check, lines 186-193 and 417: the rows are grouped by the pair
\* (group value, category level) and every cell is reduced; in error mode
\* the pair comes back as two columns (reset_index).
KeyBase == 1000

categorical_groupby(self, rows) ==
    LET n == Len(rows)
        keys == [i \in 1..n |->
                    IF IsNaN(rows[i].g) \/ IsNaN(rows[i].x) THEN NaN
                    ELSE rows[i].g * KeyBase + rows[i].x]
        buckets == DataFrame_groupby(keys)
    IN [ group_percentiles |-> <<>>,
         fixed_bins |-> keys,
         buckets    |-> buckets,
         errors_out |-> concat([k \in 1..Len(buckets) |->
                           LET frame == transform_function(self, rows, buckets[k].idx, "Categorical")
                           IN IF self.called_class = "WhiteBoxSensitivity" THEN frame
                              ELSE [r \in 1..Len(frame) |->
                                      [frame[r] EXCEPT !.g = buckets[k].key \div KeyBase,
                                                       !.x = buckets[k].key % KeyBase]]]) ]

----------------------------------------------------------------------------
(* SpecSlice: the bucketing applied to one table of rows.                  *)

\* Small tables hold at most MaxSmall rows with values drawn freely; large
\* ones have from one row below the threshold to MaxOver rows above it.
MaxSmall == 3

MaxOver == 3

SmallVals == {0, 1, 2, NaN}

\* The instance whose rows are bucketed: of either subclass.
SliceSelves == {[called_class |-> cls] : cls \in Classes}

\* Large tables take the value of row i as (i * a) % m for a pair <<a, m>>:
\* all equal, many ties, few ties, increasing and distinct, scattered and
\* distinct, decreasing and distinct.
Patterns == {<<1, 1>>, <<3, 7>>, <<7, 50>>, <<1, 211>>, <<37, 211>>, <<210, 211>>}

\* A row of cat_df[col_indices]; the delta is read in sensitivity mode only.
RowOf(i, x, g) ==
    [x |-> x, g |-> g, errors |-> ((i * 5) % 7) - 3, predictedYSmooth |-> i % 4,
     diff |-> ((i * 3) % 5) - 2]

SmallTables(path) ==
    UNION { { [i \in 1..n |-> RowOf(i, xs[i], IF path = "categorical" THEN i % 2 ELSE 0)]
              : xs \in [1..n -> SmallVals] }
            : n \in 1..MaxSmall }

LargeTables ==
    { [i \in 1..n |-> RowOf(i, (i * pat[1]) % pat[2], 0)]
        : n \in (BinThreshold - 1)..(BinThreshold + MaxOver), pat \in Patterns }

NoResult == [group_percentiles |-> <<>>, fixed_bins |-> <<>>, buckets |-> <<>>, errors_out |-> <<>>]

SliceInputs ==
    { [stage |-> "input", path |-> "continuous", self |-> self, rows |-> t, out |-> NoResult]
        : self \in SliceSelves, t \in SmallTables("continuous") \cup LargeTables }
    \cup
    { [stage |-> "input", path |-> "categorical", self |-> self, rows |-> t, out |-> NoResult]
        : self \in SliceSelves, t \in SmallTables("categorical") }

InitSlice ==
    /\ obj = Blank
    /\ usable = FALSE
    /\ ctor = [args |-> NoArgs, raised |-> "none", self |-> Blank]
    /\ last = [op |-> "none", arg |-> "none", err |-> "none"]
    /\ pc = "idle"
    /\ loc = NoLoc
    /\ calls = <<>>
    /\ hist = NoHist
    /\ slice \in SliceInputs
    /\ drv = NoDrv

\* A continuous column: the rows of one group go through _continuous_slice.
SliceContinuous ==
    /\ slice.stage = "input" /\ slice.path = "continuous"
    /\ slice' = [slice EXCEPT !.stage = "done", !.out = _continuous_slice(slice.self, slice.rows)]
    /\ UNCHANGED <<obj, usable, ctor, last, pc, loc, calls, hist, drv>>

\* A categorical column: the rows are grouped by (group value, level) and
\* every cell is reduced.
SliceCategorical ==
    /\ slice.stage = "input" /\ slice.path = "categorical"
    /\ slice' = [slice EXCEPT !.stage = "done", !.out = categorical_groupby(slice.self, slice.rows)]
    /\ UNCHANGED <<obj, usable, ctor, last, pc, loc, calls, hist, drv>>

NextSlice ==
    \/ SliceContinuous
    \/ SliceCategorical

SpecSlice == InitSlice /\ [][NextSlice]_vars

----------------------------------------------------------------------------
(* The Driver on concrete tables.  Column names and category levels are    *)
(* sequences of characters, so that the regular-expression filter and the  *)
(* substring tests of the categorical perturbation are computed.  Values   *)
(* of the perturbed copy and predictions on it are in hundredths.          *)

\* Python's `s in t` on strings.
IsSubstring(s, t) ==
    \E i \in 0..(Len(t) - Len(s)) : SubSeq(t, i + 1, i + Len(s)) = s

\* re.search('{}_*'.format(col), name): the column's name followed by any
\* number of underscores, none included, found anywhere in the name.
regex_matches(col, name) == IsSubstring(col, name)

N_age == <<"a", "g", "e">>

N_y == <<"y">>

N_pred == <<"p", "r", "e", "d", "i", "c", "t", "e", "d", "Y", "S", "m", "o", "o", "t", "h">>

\* The tables' layouts: the categorical column, its levels in category
\* order, and one further 0/1 column of the model input.
Schemas ==
    { [col    |-> <<"h", "u", "e">>,
       levels |-> << <<"r", "e", "d">>, <<"s", "k", "y">>, <<"t", "a", "n">> >>,
       extra  |-> <<"z", "o", "n", "e">>],
      [col    |-> <<"s", "e", "x">>,
       levels |-> << <<"f", "e", "m", "a", "l", "e">>, <<"m", "a", "l", "e">>,
                     <<"o", "t", "h", "e", "r">> >>,
       extra  |-> <<"e", "s", "s", "e", "x">>] }

\* The one-hot column of a level, named as pandas.get_dummies names it.
Indicator(sch, l) == sch.col \o <<"_">> \o sch.levels[l]

\* model_df's columns; a row of model_df is the sequence of their values.
ModelCols(sch) ==
    <<N_age, Indicator(sch, 1), Indicator(sch, 2), Indicator(sch, 3), sch.extra, N_y, N_pred>>

ColPos(names, name) == CHOOSE k \in 1..Len(names) : names[k] = name

\* modelobj.predict: a fitted linear model over the model-input columns,
\* every column but the dependent variable and the prediction.
Weights == <<3, 5, 2, 4, 7>>

predict(row) == SumOver([k \in 1..Len(Weights) |-> Weights[k] * row[k]], 1..Len(Weights))

\* Rows of the input tables.  Row i has the age (i * a) % m for a pattern
\* <<a, m>>, a level of the categorical column, a group value, and i % 2
\* in the further 0/1 column; its true value is the prediction plus an
\* error that takes both signs and zero.
MaxRows == 3

\* The levels of the categorical column, by their place in category order.
LevelIds == {1, 2, 3}

AgePatterns == {<<1, 1>>, <<2, 9>>, <<4, 6>>}

ModelRow(i, age, level) ==
    LET inputs == <<age, IF level = 1 THEN 1 ELSE 0, IF level = 2 THEN 1 ELSE 0,
                    IF level = 3 THEN 1 ELSE 0, i % 2>>
    IN inputs \o <<predict(inputs) + ((i * 5) % 7) - 3, predict(inputs)>>

\* fmt_sklearn_preds on the two tables: model_df with predictedYSmooth,
\* cat_df with predictedYSmooth and errors; cat_df has no 'diff' yet.
NoDiff == 0 - 3000000

CatRow(i, age, level, grp) ==
    LET m == ModelRow(i, age, level)
    IN [age |-> age, cat |-> level, grp |-> grp,
        errors |-> m[Len(m) - 1] - m[Len(m)], predictedYSmooth |-> m[Len(m)], diff |-> NoDiff]

DriverTables ==
    UNION { { [ sch      |-> sch,
                model_df |-> [i \in 1..n |-> ModelRow(i, (i * pat[1]) % pat[2], cats[i])],
                cat_df   |-> [i \in 1..n |-> CatRow(i, (i * pat[1]) % pat[2], cats[i], grps[i])] ]
              : sch \in Schemas, pat \in AgePatterns,
                cats \in [1..n -> LevelIds], grps \in [1..n -> 0..1] }
            : n \in 1..MaxRows }

\* Series.std(): the sample standard deviation (one degree of freedom
\* less than values), in hundredths rounded down; NaN for a single value.
ISqrt(m, hi) == CHOOSE r \in 0..hi : r * r <= m /\ m < (r + 1) * (r + 1)

StdOfPopulation(vals) ==
    LET n  == Len(vals)
        s1 == SumOver(vals, 1..n)
        s2 == SumOver([i \in 1..n |-> vals[i] * vals[i]], 1..n)
    IN IF n < 2 THEN NaN
       ELSE ISqrt((Scale * Scale * (n * s2 - s1 * s1)) \div (n * n),
                  Scale * (SeriesMax(vals, 1..n) + 1))

Series_std(vals) ==
    LET n  == Len(vals)
        s1 == SumOver(vals, 1..n)
        s2 == SumOver([i \in 1..n |-> vals[i] * vals[i]], 1..n)
    IN IF n < 2 THEN NaN
       ELSE ISqrt((Scale * Scale * (n * s2 - s1 * s1)) \div (n * (n - 1)),
                  Scale * (SeriesMax(vals, 1..n) + 1))

\* The rows at the positions idx, in their order.
SubTable(rows, idx) ==
    LET pos == SortedOfSet(idx) IN [k \in 1..Len(pos) |-> rows[pos[k]]]

RECURSIVE Flatten(_)
Flatten(ss) == IF ss = <<>> THEN <<>> ELSE Head(ss) \o Flatten(Tail(ss))

\* self.cat_df[col_indices]: the analysed column, the group variable, the
\* errors, the prediction and (sensitivity) the delta of every row.
Selected(sch, cat_df, col) ==
    [i \in 1..Len(cat_df) |->
        [x |-> IF col = sch.col THEN cat_df[i].cat ELSE cat_df[i].age,
         g |-> cat_df[i].grp,
         errors |-> cat_df[i].errors,
         predictedYSmooth |-> cat_df[i].predictedYSmooth,
         diff |-> cat_df[i].diff]]

ContinuousSliceOverAll(self, rows) == _continuous_slice(self, rows).errors_out

\* groupby(groupby).apply(cont_slice_partial): every group value's rows go
\* through _continuous_slice, in ascending order of the group value.
groupby_apply_continuous_slice(self, rows) ==
    LET groups == DataFrame_groupby([i \in 1..Len(rows) |-> rows[i].g])
    IN Flatten([k \in 1..Len(groups) |->
                  _continuous_slice(self, SubTable(rows, groups[k].idx)).errors_out])

\* A cell of the Driver's output frame holding an aggregate: a number
\* (sum over count), NaN, or the marker 'null'.
Null == [sum |-> 0, n |-> 0, is |-> "null"]

Cell(m) == [sum |-> m.sum, n |-> m.n, is |-> IF m.n = 0 THEN "nan" ELSE "number"]

ReplaceNothing(cell) == cell

\* errors.replace(np.nan, 'null'), lines 219 and 452.
replace_nan_null(cell) == IF cell.is = "nan" THEN Null ELSE cell

\* The output frame of a Driver call, after the replacement.
OutputFrame(self, records) ==
    [k \in 1..Len(records) |->
        IF self.called_class = "WhiteBoxSensitivity"
        THEN [records[k] EXCEPT !.predictedYSmooth = replace_nan_null(Cell(@))]
        ELSE [records[k] EXCEPT !.predictedYSmooth = replace_nan_null(Cell(@)),
                                !.errPos = replace_nan_null(Cell(@)),
                                !.errNeg = replace_nan_null(Cell(@))]]

\* WhiteBoxError._var_check on concrete rows.
ErrorDriver(self, t, col) ==
    LET rows   == Selected(t.sch, t.cat_df, col)
        errors == IF col = t.sch.col
                  THEN categorical_groupby(self, rows).errors_out
                  ELSE groupby_apply_continuous_slice(self, rows)
    IN [ raised |-> "none", incremental_val |-> NaN,
         copydf |-> <<>>, new_predictions |-> <<>>,
         model_df |-> t.model_df, cat_df |-> t.cat_df,
         records |-> OutputFrame(self, errors) ]

\* Lines 393-402: the columns of the copy whose name matches the column's
\* pattern are set to 1 where the modal level occurs in the name and to 0
\* elsewhere.  The modal level is that of the whole cat_df column.
perturb_categorical(sch, model_df, cat_df, col) ==
    LET names           == ModelCols(sch)
        n               == Len(model_df)
        all_type_cols   == {k \in 1..Len(names) : regex_matches(col, names[k])}
        incremental_val == SeriesMode([i \in 1..n |-> cat_df[i].cat], 1..n)
        level           == sch.levels[incremental_val]
        mode_col        == {k \in all_type_cols : IsSubstring(level, names[k])}
        non_mode_col    == all_type_cols \ mode_col
    IN [ incremental_val |-> incremental_val,
         copydf |-> [i \in 1..n |-> [k \in 1..Len(names) |->
                        IF k \in non_mode_col THEN 0
                        ELSE IF k \in mode_col THEN Scale
                        ELSE Scale * model_df[i][k]]] ]

\* Lines 433-435: the column of the copy is shifted in every row by the
\* standard deviation of the whole column times std_num.
perturb_continuous(sch, model_df, std_num, col) ==
    LET names == ModelCols(sch)
        n     == Len(model_df)
        c     == ColPos(names, col)
        sd    == Series_std([i \in 1..n |-> model_df[i][c]])
        incremental_val == IF IsNaN(sd) THEN NaN ELSE sd * std_num
    IN [ incremental_val |-> incremental_val,
         copydf |-> [i \in 1..n |-> [k \in 1..Len(names) |->
                        IF k # c THEN Scale * model_df[i][k]
                        ELSE IF IsNaN(incremental_val) THEN NaN
                        ELSE Scale * model_df[i][k] + incremental_val]] ]

\* modelobj.predict refuses a table with a missing input value.
predict_raises(copydf) ==
    \E i \in 1..Len(copydf), k \in 1..Len(Weights) : IsNaN(copydf[i][k])

MaskKeepsAll(v, incremental_val) == TRUE

\* Line 415: mode_mask = self.cat_df[col] != incremental_val.
mode_mask(v, incremental_val) == v # incremental_val

\* Lines 408-417 and 441-447: with the delta attached, the rows of a
\* categorical column that pass the mask are grouped by (group value,
\* level); those of a continuous column go group by group through
\* _continuous_slice.
SensitivityReduce(self, sch, cat_df, col, incremental_val) ==
    LET rows == Selected(sch, cat_df, col)
    IN IF col = sch.col
       THEN LET kept == {i \in 1..Len(rows) : mode_mask(rows[i].x, incremental_val)}
            IN categorical_groupby(self, SubTable(rows, kept)).errors_out
       ELSE groupby_apply_continuous_slice(self, rows)

LiveModelAliased(model_df, copydf) == copydf

\* Line 384: copydf is a deep copy, so self.model_df stays as it was.
LiveModelAfter(model_df, copydf) == model_df

\* WhiteBoxSensitivity._var_check on concrete rows.
WhiteBoxSensitivity_driver(self, t, col) ==
    LET p == IF col = t.sch.col
             THEN perturb_categorical(t.sch, t.model_df, t.cat_df, col)
             ELSE perturb_continuous(t.sch, t.model_df, self.std_num, col)
        new_predictions == [i \in 1..Len(p.copydf) |-> predict(p.copydf[i])]
        old == ColPos(ModelCols(t.sch), N_pred)
        scored == [i \in 1..Len(t.cat_df) |->
                      [t.cat_df[i] EXCEPT !.diff = new_predictions[i] - p.copydf[i][old]]]
    IN IF predict_raises(p.copydf)
       THEN [ raised |-> "ValueError", incremental_val |-> p.incremental_val,
              copydf |-> p.copydf, new_predictions |-> <<>>,
              model_df |-> LiveModelAfter(t.model_df, p.copydf), cat_df |-> t.cat_df,
              records |-> <<>> ]
       ELSE [ raised |-> "none", incremental_val |-> p.incremental_val,
              copydf |-> p.copydf, new_predictions |-> new_predictions,
              model_df |-> LiveModelAfter(t.model_df, p.copydf), cat_df |-> scored,
              records |-> OutputFrame(self,
                            SensitivityReduce(self, t.sch, scored, col, p.incremental_val)) ]

\* self._var_check on concrete rows: the subclass's Driver.
driver(self, t, col) ==
    IF self.called_class = "WhiteBoxSensitivity"
    THEN WhiteBoxSensitivity_driver(self, t, col)
    ELSE ErrorDriver(self, t, col)

----------------------------------------------------------------------------
(* SpecDriver: _var_check called again and again on one instance's tables. *)

MaxCalls == 3

Kinds == {"continuous", "categorical"}

\* The column of a kind: the categorical column of the layout, or age.
ColOf(sch, kind) == IF kind = "categorical" THEN sch.col ELSE N_age

NoOut ==
    [ raised |-> "notcalled", incremental_val |-> NaN, copydf |-> <<>>,
      new_predictions |-> <<>>, model_df |-> <<>>, cat_df |-> <<>>, records |-> <<>> ]

DriverSelves ==
    { [called_class |-> "WhiteBoxError", std_num |-> 0] }
    \cup { [called_class |-> "WhiteBoxSensitivity", std_num |-> k] : k \in {0 - 1, 2} }

DriverInputs ==
    { [ stage |-> "ready", self |-> self, t |-> t, ncalls |-> 0,
        first |-> [k \in Kinds |-> NoOut], seen |-> [k \in Kinds |-> 0],
        prev |-> "none", kind |-> "none", out |-> NoOut ]
        : self \in DriverSelves, t \in DriverTables }

InitDriver ==
    /\ obj = Blank
    /\ usable = FALSE
    /\ ctor = [args |-> NoArgs, raised |-> "none", self |-> Blank]
    /\ last = [op |-> "none", arg |-> "none", err |-> "none"]
    /\ pc = "idle"
    /\ loc = NoLoc
    /\ calls = <<>>
    /\ hist = NoHist
    /\ slice = NoSlice
    /\ drv \in DriverInputs

\* One call of self._var_check(col, groupby): the live tables are left as
\* the call leaves them; the first output for every column is kept, with
\* the number of calls for it and the column of the call before.
CallVarCheck(cls, kind) ==
    /\ drv.stage \in {"ready", "called"}
    /\ drv.self.called_class = cls
    /\ drv.ncalls < MaxCalls
    /\ LET r == driver(drv.self, drv.t, ColOf(drv.t.sch, kind))
       IN drv' = [drv EXCEPT !.stage = "called",
                             !.t.model_df = r.model_df,
                             !.t.cat_df = r.cat_df,
                             !.ncalls = @ + 1,
                             !.first[kind] = IF @.raised = "notcalled" THEN r ELSE @,
                             !.seen[kind] = @ + 1,
                             !.prev = drv.kind,
                             !.kind = kind,
                             !.out = r]
    /\ UNCHANGED <<obj, usable, ctor, last, pc, loc, calls, hist, slice>>

ErrorVarCheck(kind) == CallVarCheck("WhiteBoxError", kind)

SensitivityVarCheck(kind) == CallVarCheck("WhiteBoxSensitivity", kind)

NextDriver ==
    \/ \E kind \in Kinds : ErrorVarCheck(kind)
    \/ \E kind \in Kinds : SensitivityVarCheck(kind)

SpecDriver == InitDriver /\ [][NextDriver]_vars

----------------------------------------------------------------------------
(* Properties of the life cycle, checked under Spec.                       *)

Getters == {"get_raw_df", "get_agg_df"}

\* The pair run() is about to process, and what the Driver would do with it.
CurCol == loc.to_iter_cols[loc.i]

CurGroup == obj.groupbyvars[loc.j]

DriverFailsHere ==
    /\ pc = "loop"
    /\ PairGoesToDriver(CurCol, CurGroup)
    /\ var_check(obj, CurCol, CurGroup).raised # "none"

Pos(s, x) == CHOOSE k \in 1..Len(s) : s[k] = x

CountCalls(fn, col, groupby) ==
    Cardinality({k \in 1..Len(calls) :
        calls[k] = [fn |-> fn, col |-> col, groupby |-> groupby]})

\* The column sections of a Result Tree: everything before the last three.
ColumnSections(tree) == SubSeq(tree, 1, Len(tree) - 3)

\* C1: a WhiteBoxSensitivity constructor given a std_num outside
\* {-3,-2,-1,1,2,3} raises the std_num error, and the object it leaves
\* has no attribute at all: no model table, no categorical table, no
\* percentiles, no result accumulators; the caller holds no instance.
C1_StdNumRejectedFirst ==
    (ctor.args.class = "WhiteBoxSensitivity" /\ ctor.args.std_num \notin AllowedStdNums)
        => /\ ctor.raised = "std_num"
           /\ ctor.self = Blank
           /\ ~usable
           /\ obj = Blank

C1_Witness ==
    /\ ctor.args.class = "WhiteBoxSensitivity"
    /\ ctor.args.std_num = 5
    /\ ctor.args.error_type \in supported_agg_errors
    /\ ctor.args.groupbyvars # <<>>
    /\ ctor.raised = "std_num"

\* C2: an unsupported error_type or an empty groupbyvars makes the
\* constructor raise with neither table copied and no percentiles
\* computed; an unsupported output_type makes run() raise at its entry
\* with the instance (scored tables, outputs, raw_df, agg_df) unchanged
\* and no call made.
C2_ConfigErrorsFirst ==
    /\ [](/\ (ctor.args.class # "none" /\ ctor.raised # "std_num"
                /\ (ctor.args.error_type \notin supported_agg_errors
                      \/ ctor.args.groupbyvars = <<>>))
             => /\ ctor.raised \in {"error_type", "groupbyvars"}
                /\ ctor.self.attrs \subseteq {"std_num"}
                /\ ctor.self.model_df = NoTable
                /\ ctor.self.cat_df = NoTable
                /\ ctor.self.Percentiles = NoPercentiles
                /\ ~usable
          /\ ctor.raised \in {"error_type", "groupbyvars"}
             => (ctor.args.error_type \notin supported_agg_errors
                   \/ ctor.args.groupbyvars = <<>>))
    /\ [][(pc = "idle" /\ last' # last /\ last'.op = "run"
             /\ last'.arg \notin supported_out_types)
          => (last'.err = "ValueError" /\ obj' = obj /\ pc' = "idle" /\ calls' = calls)]_vars

C2_Witness ==
    /\ last.op = "run" /\ last.err = "ValueError"
    /\ hasattr(obj, "outputs")
    /\ Contains(obj.cat_df.cols, "predictedYSmooth")

\* C3 as claimed: while no run has returned normally both getters raise,
\* and once one has they succeed.
C3_GettersNeedCompletedRun ==
    (last.op \in Getters) => (last.err = "RuntimeError" <=> ~hist.completed)

\* C3 as amended: both getters raise exactly while no run has reached the
\* assignment of self.outputs; once a run has assigned it they succeed,
\* also when that run went on to fail while saving the html report.
C3_GettersNeedPublishedRun ==
    (last.op \in Getters) => (last.err = "RuntimeError" <=> ~hist.published)

C3_Witness ==
    /\ last.op \in Getters /\ last.err = "none"
    /\ hist.published /\ ~hist.completed

\* C4: a call of _var_check that returns leaves the live tables model_df
\* and cat_df as they were.
C4_DriverLeavesLiveTables ==
    [][(pc = "loop" /\ PairGoesToDriver(CurCol, CurGroup) /\ ~DriverFailsHere)
        => (obj'.cat_df = obj.cat_df /\ obj'.model_df = obj.model_df)]_vars

\* C5: self.outputs is assigned only by the last step of run(), after every
\* pair; a published tree has one section for every iterated column that
\* differs from some group variable, holding one entry for each such group
\* variable, followed by the three trailing sections; a run that leaves
\* the loop with an error publishes nothing.
C5_RunIsAtomic ==
    /\ [](hasattr(obj, "outputs") =>
            LET tree == obj.outputs
                secs == ColumnSections(tree)
                gvs  == Range(obj.groupbyvars)
                paired == {c \in Range(hist.iter) : \E g \in gvs : g # c}
            IN /\ Len(tree) >= 3
               /\ tree[Len(tree) - 2].kind = "accuracy"
               /\ tree[Len(tree) - 1].kind = "percentiles"
               /\ tree[Len(tree)].kind = "group_percentiles"
               /\ Len(secs) = Cardinality(paired)
               /\ \A c \in paired :
                    \E k \in 1..Len(secs) :
                        /\ secs[k].kind = "column" /\ secs[k].col = c
                        /\ Len(secs[k].data) = Cardinality(gvs \ {c})
                        /\ \A g \in gvs \ {c} :
                             \E m \in 1..Len(secs[k].data) :
                                 /\ secs[k].data[m].col = c
                                 /\ secs[k].data[m].groupByVarName = g)
    /\ [][(obj'.outputs # obj.outputs \/ hasattr(obj', "outputs") # hasattr(obj, "outputs"))
            => (pc = "finish" /\ loc.i = Len(loc.to_iter_cols) + 1)]_vars
    /\ [][DriverFailsHere => (pc' = "idle" /\ obj'.outputs = obj.outputs
                                /\ obj'.attrs = obj.attrs)]_vars

C5_Witness ==
    /\ hasattr(obj, "outputs") /\ Len(obj.outputs) >= 5
    /\ last.op = "run" /\ last.err \in {"KeyError", "ScoringError"}

\* C6 as claimed: when the Driver raises for one pair, run() goes on with
\* the remaining pairs.
C6_PairErrorIsLocal ==
    [][DriverFailsHere => pc' \in {"loop", "finish"}]_vars

\* C6 as amended: when the Driver raises for one pair, the error leaves
\* run() at once: no later pair is processed, no Result Tree is assigned
\* by that run, and the caller gets the Driver's error.
C6_PairErrorAbortsRun ==
    [][DriverFailsHere =>
        /\ pc' = "idle"
        /\ last' = [op |-> "run", arg |-> loc.output_type,
                    err |-> var_check(obj, CurCol, CurGroup).raised]
        /\ calls' = Append(calls, [fn |-> "_var_check", col |-> CurCol, groupby |-> CurGroup])
        /\ obj'.outputs = obj.outputs /\ obj'.attrs = obj.attrs]_vars

C6_Witness ==
    /\ last.op = "run" /\ last.err = "KeyError" /\ pc = "idle"
    /\ Len(calls) = 1
    /\ Len(obj.groupbyvars) = 2
    /\ ~hasattr(obj, "outputs")

\* C7: in a run, a pair whose column is the group variable never reaches
\* the Driver and reaches the Accuracy Aggregator once; any other pair
\* reaches the Driver once and the Accuracy Aggregator never.  While the
\* loop is running no pair has been handed over more often than that.
C7_SelfPairsGoToAccuracy ==
    (pc \in {"loop", "finish"}) =>
        \A c \in Range(loc.to_iter_cols), g \in Range(obj.groupbyvars) :
            LET d == CountCalls("_var_check", c, g)
                a == CountCalls("create_accuracy", c, g)
            IN /\ d <= (IF c # g THEN 1 ELSE 0)
               /\ a <= (IF c = g THEN 1 ELSE 0)
               /\ pc = "finish" => (d + a = 1)

C7_Witness ==
    /\ pc = "finish"
    /\ \E k \in 1..Len(calls) : calls[k].fn = "create_accuracy"
    /\ \E k \in 1..Len(calls) : calls[k].fn = "_var_check"
    /\ Len(obj.groupbyvars) = 2

\* C8: in a published tree the column sections come in the order in which
\* run() iterated the columns, the entries of a section in the order of
\* groupbyvars, and the accuracy section and the two percentile sections
\* come last, after every column section.
C8_TreeOrder ==
    hasattr(obj, "outputs") =>
        LET tree == obj.outputs
            n    == Len(tree)
        IN /\ n >= 3
           /\ \A k \in 1..n : (tree[k].kind = "column") <=> (k <= n - 3)
           /\ tree[n - 2].kind = "accuracy"
           /\ tree[n - 1].kind = "percentiles"
           /\ tree[n].kind = "group_percentiles"
           /\ \A k, l \in 1..(n - 3) :
                k < l => Pos(hist.iter, tree[k].col) < Pos(hist.iter, tree[l].col)
           /\ \A k \in 1..(n - 3) :
                \A m, q \in 1..Len(tree[k].data) :
                    m < q => Pos(obj.groupbyvars, tree[k].data[m].groupByVarName)
                               < Pos(obj.groupbyvars, tree[k].data[q].groupByVarName)

C8_Witness ==
    /\ hasattr(obj, "outputs")
    /\ Len(obj.outputs) >= 5
    /\ \E k \in 1..Len(obj.outputs) :
          obj.outputs[k].kind = "column" /\ Len(obj.outputs[k].data) = 2

\* The columns derived by the program: the prediction and the error that
\* the prediction pass attaches, and the delta the sensitivity Driver
\* attaches.
DerivedCols == {"errors", "predictedYSmooth", "diff"}

\* C22: while run() iterates, in a first or in a later run on the
\* instance, none of the columns it iterates is a derived column or the
\* dependent variable, and once a run has finished every later run
\* iterates the columns that run iterated.
C22_IteratesOnlyAnalysisColumns ==
    (pc \in {"loop", "finish"}) =>
        /\ \A k \in 1..Len(loc.to_iter_cols) :
              loc.to_iter_cols[k] \notin DerivedCols \cup {obj.ydepend}
        /\ hist.published => loc.to_iter_cols = hist.iter

----------------------------------------------------------------------------
(* Properties of the bucketing, checked under SpecSlice.                   *)

SliceDone(path) == slice.stage = "done" /\ slice.path = path

\* C9: a group of at most 100 rows, 100 included, is not binned: the bucket
\* id of every row is its own column value, no cut-point is computed, and
\* the rows holding one value form one bucket keyed by that value.  Only a
\* group of more than 100 rows gets percentile-bin indices: the number of
\* cut-points below the row's value.
C9_RawValuesUpToHundred ==
    SliceDone("continuous") =>
        LET rows == slice.rows
            n    == Len(rows)
            out  == slice.out
        IN /\ n <= 100 =>
                /\ out.group_percentiles = <<>>
                /\ \A i \in 1..n : out.fixed_bins[i] = rows[i].x
                /\ \A i \in 1..n : ~IsNaN(rows[i].x) =>
                      \E k \in 1..Len(out.buckets) :
                          /\ out.buckets[k].key = rows[i].x
                          /\ out.buckets[k].idx = {j \in 1..n : rows[j].x = rows[i].x}
           /\ n > 100 =>
                /\ Len(out.group_percentiles) >= 1
                /\ \A i \in 1..n :
                      /\ out.fixed_bins[i] \in 0..Len(out.group_percentiles)
                      /\ \A k \in 1..Len(out.group_percentiles) :
                            (k <= out.fixed_bins[i])
                              <=> (out.group_percentiles[k] < Scale * rows[i].x)

C9_Witness ==
    /\ SliceDone("continuous")
    /\ Len(slice.rows) = 100
    /\ \E i \in 1..100 : slice.rows[i].x > 100 /\ slice.out.fixed_bins[i] = slice.rows[i].x
    /\ Len(slice.out.buckets) = 100

\* C10: once a table has been bucketed, on either path, every row is in
\* exactly one bucket, and every bucket has been reduced to one record.
C10_BucketsPartitionRows ==
    (slice.stage = "done") =>
        /\ \A i \in 1..Len(slice.rows) :
              Cardinality({k \in 1..Len(slice.out.buckets) : i \in slice.out.buckets[k].idx}) = 1
        /\ Len(slice.out.errors_out) = Len(slice.out.buckets)

\* C11: in a group of more than 100 rows the percentile bucket ids follow
\* the values: a row whose value is not above another row's has a bucket
\* id that is not above the other's.
C11_BucketIdsMonotone ==
    (SliceDone("continuous") /\ Len(slice.rows) > 100) =>
        \A a, b \in 1..Len(slice.rows) :
            slice.rows[a].x <= slice.rows[b].x
                => slice.out.fixed_bins[a] <= slice.out.fixed_bins[b]

C11_Witness ==
    /\ SliceDone("continuous") /\ Len(slice.rows) > 100
    /\ Len(slice.out.buckets) >= 50
    /\ \E a, b \in 1..Len(slice.rows) :
          /\ a > b /\ slice.rows[a].x < slice.rows[b].x
          /\ slice.out.fixed_bins[a] < slice.out.fixed_bins[b]

\* C12: on the percentile path the cut-points are strictly increasing and
\* the bucket with id k is the interval from the cut-point before the
\* k-th (counted from 0), excluded, to the k-th, included: a value equal
\* to a cut-point has that cut-point's index as its bucket id, as has any
\* value between it and the cut-point before.
C12_CutPointsRightClosed ==
    (SliceDone("continuous") /\ Len(slice.rows) > 100) =>
        LET bins == slice.out.group_percentiles IN
        /\ \A k \in 1..(Len(bins) - 1) : bins[k] < bins[k + 1]
        /\ \A i \in 1..Len(slice.rows), k \in 1..Len(bins) :
              LET v == Scale * slice.rows[i].x IN
              /\ v = bins[k] => slice.out.fixed_bins[i] = k - 1
              /\ (v <= bins[k] /\ (k > 1 => bins[k - 1] < v))
                    => slice.out.fixed_bins[i] = k - 1

C12_Witness ==
    /\ SliceDone("continuous") /\ Len(slice.rows) > 100
    /\ LET bins == slice.out.group_percentiles IN
       \E i, j \in 1..Len(slice.rows), k \in 2..Len(bins) :
          /\ Scale * slice.rows[i].x = bins[k]
          /\ bins[k - 1] < Scale * slice.rows[j].x
          /\ slice.rows[j].x < slice.rows[i].x
          /\ slice.out.fixed_bins[i] = k - 1
          /\ slice.out.fixed_bins[j] = k - 1

\* C13: in error mode the record of a bucket has as errPos the sum and the
\* count of the errors above zero of the bucket's rows and as errNeg those
\* of the errors below zero; a row whose error is zero is counted on
\* neither side.
C13_ZeroErrorOnNeitherSide ==
    (slice.stage = "done" /\ slice.self.called_class = "WhiteBoxError") =>
        \A k \in 1..Len(slice.out.buckets) :
            LET idx == slice.out.buckets[k].idx
                e   == [i \in 1..Len(slice.rows) |-> slice.rows[i].errors]
                pos == {i \in idx : e[i] > 0}
                neg == {i \in idx : e[i] < 0}
                rec == slice.out.errors_out[k]
            IN /\ rec.errPos = [sum |-> SumOver(e, pos), n |-> Cardinality(pos)]
               /\ rec.errNeg = [sum |-> SumOver(e, neg), n |-> Cardinality(neg)]
               /\ rec.errPos.n + rec.errNeg.n
                    = Cardinality(idx) - Cardinality({i \in idx : e[i] = 0})

C13_Witness ==
    /\ slice.stage = "done" /\ slice.self.called_class = "WhiteBoxError"
    /\ \E k \in 1..Len(slice.out.buckets) :
          LET idx == slice.out.buckets[k].idx IN
          /\ Cardinality(idx) = 3
          /\ \E i \in idx : slice.rows[i].errors = 0
          /\ slice.out.errors_out[k].errPos = [sum |-> 2, n |-> 1]
          /\ slice.out.errors_out[k].errNeg = [sum |-> 0 - 2, n |-> 1]

\* The first row of a bucket.
FirstRow(idx) == CHOOSE i \in idx : \A j \in idx : i <= j

\* C20 as claimed: the records of a continuous column come in ascending
\* bucket id, those of a categorical column in the order in which their
\* levels first occur in the rows.
C20_FirstSeenOrder ==
    (slice.stage = "done") =>
        \A k, l \in 1..Len(slice.out.buckets) :
            k < l =>
                IF slice.path = "continuous"
                THEN slice.out.buckets[k].key < slice.out.buckets[l].key
                ELSE FirstRow(slice.out.buckets[k].idx) < FirstRow(slice.out.buckets[l].idx)

\* C20 as amended: the records come in ascending key order on both paths:
\* ascending bucket id for a continuous column, and for a categorical
\* column ascending group value and, within one group value, ascending
\* level, wherever the levels first occur in the rows.
C20_AscendingKeyOrder ==
    (slice.stage = "done") =>
        /\ Len(slice.out.errors_out) = Len(slice.out.buckets)
        /\ \A k, l \in 1..Len(slice.out.buckets) :
            k < l =>
                /\ slice.out.buckets[k].key < slice.out.buckets[l].key
                /\ slice.path = "continuous" =>
                      slice.out.errors_out[k].x < slice.out.errors_out[l].x
                /\ slice.path = "categorical" =>
                      \/ slice.out.errors_out[k].g < slice.out.errors_out[l].g
                      \/ /\ slice.out.errors_out[k].g = slice.out.errors_out[l].g
                         /\ slice.out.errors_out[k].x < slice.out.errors_out[l].x

C20_Witness ==
    /\ SliceDone("categorical")
    /\ Len(slice.out.errors_out) = 3
    /\ slice.out.errors_out[1].g = 0
    /\ slice.out.errors_out[2].x = 1 /\ slice.out.errors_out[3].x = 2
    /\ FirstRow(slice.out.buckets[3].idx) < FirstRow(slice.out.buckets[2].idx)

----------------------------------------------------------------------------
(* Properties of the Driver, checked under SpecDriver.                     *)

\* A call of the Driver on a column of the given kind has returned.
Called(cls, kind) ==
    /\ drv.stage = "called" /\ drv.self.called_class = cls
    /\ drv.kind = kind /\ drv.out.raised = "none"

\* C14: after a sensitivity call on the categorical column no record has
\* the column's modal level as its column value, every row with another
\* level has the record of its (group value, level) cell, once, and there
\* are as many records as such cells.
C14_ModeRowsLeftOut ==
    Called("WhiteBoxSensitivity", "categorical") =>
        LET cat_df == drv.t.cat_df
            n      == Len(cat_df)
            mode   == SeriesMode([i \in 1..n |-> cat_df[i].cat], 1..n)
            recs   == drv.out.records
            others == {i \in 1..n : cat_df[i].cat # mode}
        IN /\ \A k \in 1..Len(recs) : recs[k].x # mode
           /\ \A i \in others :
                Cardinality({k \in 1..Len(recs) :
                    recs[k].x = cat_df[i].cat /\ recs[k].g = cat_df[i].grp}) = 1
           /\ Len(recs) = Cardinality({<<cat_df[i].grp, cat_df[i].cat>> : i \in others})

C14_Witness ==
    /\ Called("WhiteBoxSensitivity", "categorical")
    /\ Len(drv.t.cat_df) = 3
    /\ drv.t.cat_df[1].cat = 2 /\ drv.t.cat_df[2].cat = 2 /\ drv.t.cat_df[3].cat = 3
    /\ Len(drv.out.records) = 1
    /\ drv.out.records[1].x = 3

\* C15: after a sensitivity call on the categorical column every row of
\* the private copy has 1 in the indicator of the modal level and 0 in the
\* other indicators of the column, and every other column of the copy has
\* the value it has in model_df.
C15_OnlyOwnIndicatorsForced ==
    Called("WhiteBoxSensitivity", "categorical") =>
        LET sch   == drv.t.sch
            names == ModelCols(sch)
            mode  == drv.out.incremental_val
            own   == {ColPos(names, Indicator(sch, l)) : l \in LevelIds}
        IN \A i \in 1..Len(drv.out.copydf) :
              /\ drv.out.copydf[i][ColPos(names, Indicator(sch, mode))] = Scale
              /\ \A l \in LevelIds \ {mode} :
                    drv.out.copydf[i][ColPos(names, Indicator(sch, l))] = 0
              /\ \A k \in (1..Len(names)) \ own :
                    drv.out.copydf[i][k] = Scale * drv.t.model_df[i][k]

\* C16: after a sensitivity call on the continuous column the reported
\* incremental value is std_num times the sample standard deviation of the
\* column over all rows of model_df (in hundredths, rounded down); the
\* copy has that value added to the column in every row, whatever the
\* row's group, and nothing else changed; every row is scored again and the
\* row's delta is its new prediction less its own original prediction.
C16_UniformShift ==
    Called("WhiteBoxSensitivity", "continuous") =>
        LET names == ModelCols(drv.t.sch)
            c     == ColPos(names, N_age)
            m     == drv.t.model_df
            n     == Len(m)
            s1    == SumOver([i \in 1..n |-> m[i][c]], 1..n)
            s2    == SumOver([i \in 1..n |-> m[i][c] * m[i][c]], 1..n)
            q     == (Scale * Scale * (n * s2 - s1 * s1)) \div (n * (n - 1))
            inc   == drv.out.incremental_val
        IN /\ n >= 2
           /\ \E r \in 0..(Scale * Scale) :
                 /\ r * r <= q /\ q < (r + 1) * (r + 1)
                 /\ inc = r * drv.self.std_num
           /\ Len(drv.out.copydf) = n /\ Len(drv.out.new_predictions) = n
           /\ \A i \in 1..n :
                 /\ \A k \in 1..Len(names) :
                       drv.out.copydf[i][k] = Scale * m[i][k] + (IF k = c THEN inc ELSE 0)
                 /\ drv.out.new_predictions[i] = predict(drv.out.copydf[i])
                 /\ drv.t.cat_df[i].diff
                       = drv.out.new_predictions[i] - Scale * drv.t.cat_df[i].predictedYSmooth

C16_Witness ==
    /\ Called("WhiteBoxSensitivity", "continuous")
    /\ drv.self.std_num = 2
    /\ drv.out.incremental_val = 4 * Scale
    /\ Len(drv.t.cat_df) = 3
    /\ drv.t.cat_df[1].grp # drv.t.cat_df[2].grp
    /\ \A i \in 1..3 : drv.t.cat_df[i].diff = Weights[1] * 4 * Scale

\* C17: whenever the Driver has been called for a column, its records and
\* its incremental value are those of the first call for that column on
\* this instance, whatever calls were made in between.
C17_DriverIdempotent ==
    (drv.stage = "called") =>
        /\ drv.first[drv.kind].raised = drv.out.raised
        /\ drv.first[drv.kind].records = drv.out.records
        /\ drv.first[drv.kind].incremental_val = drv.out.incremental_val
        /\ \A kind \in Kinds :
              drv.first[kind].raised # "notcalled" =>
                  LET again == driver(drv.self, drv.t, ColOf(drv.t.sch, kind))
                  IN /\ again.raised = drv.first[kind].raised
                     /\ again.records = drv.first[kind].records

C17_Witness ==
    /\ drv.stage = "called" /\ drv.seen["continuous"] = 2 /\ drv.prev = "categorical"
    /\ drv.self.called_class = "WhiteBoxSensitivity"
    /\ drv.kind = "continuous"
    /\ drv.first["categorical"].raised = "none"
    /\ Len(drv.first["categorical"].records) >= 1
    /\ drv.first["continuous"].raised = "none"
    /\ Len(drv.out.records) = 3
    /\ drv.out.records[1].predictedYSmooth.sum # 0
    /\ \E i \in 1..Len(drv.t.cat_df) :
          drv.first["categorical"].cat_df[i].diff # drv.t.cat_df[i].diff

\* The rows a record of the last call stands for: those with the record's
\* column value and group value.
RowsOf(rec) ==
    {i \in 1..Len(drv.t.cat_df) :
        /\ drv.t.cat_df[i].grp = rec.g
        /\ rec.x = (IF drv.kind = "categorical" THEN drv.t.cat_df[i].cat
                    ELSE drv.t.cat_df[i].age)}

\* C18: a call of the error-mode Driver returns whatever the signs of the
\* errors in its buckets; in its output the mean of the positive errors of
\* a record is the marker 'null' exactly when none of the record's rows
\* has a positive error and a number otherwise, likewise for the negative
\* errors; in both modes every aggregate of every record is a number or
\* 'null', never NaN.
C18_NullMarkerNotNaN ==
    (drv.stage = "called") =>
        LET recs == drv.out.records
            e    == [i \in 1..Len(drv.t.cat_df) |-> drv.t.cat_df[i].errors]
        IN /\ \A k \in 1..Len(recs) : recs[k].predictedYSmooth.is \in {"number", "null"}
           /\ drv.self.called_class = "WhiteBoxError" =>
                /\ drv.out.raised = "none"
                /\ \A k \in 1..Len(recs) :
                      /\ recs[k].errPos.is \in {"number", "null"}
                      /\ recs[k].errNeg.is \in {"number", "null"}
                      /\ (recs[k].errPos = Null) <=> (\A i \in RowsOf(recs[k]) : ~(e[i] > 0))
                      /\ (recs[k].errNeg = Null) <=> (\A i \in RowsOf(recs[k]) : ~(e[i] < 0))
                      /\ recs[k].predictedYSmooth.is = "number"

C18_Witness ==
    /\ drv.stage = "called" /\ drv.self.called_class = "WhiteBoxError"
    /\ drv.kind = "continuous"
    /\ Len(drv.out.records) = 2
    /\ drv.out.records[1].errPos.is = "number" /\ drv.out.records[1].errNeg = Null
    /\ drv.out.records[2].errPos = Null /\ drv.out.records[2].errNeg = Null

\* The records of a group value, and the tables cut down to its rows.
RecordsOfGroup(recs, v) ==
    LET OfGroup(r) == r.g = v IN SelectSeq(recs, OfGroup)

RowsOfGroup(rows, v) == SubTable(rows, {i \in 1..Len(rows) : drv.t.cat_df[i].grp = v})

OnlyGroup(v) ==
    [drv.t EXCEPT !.model_df = RowsOfGroup(@, v), !.cat_df = RowsOfGroup(@, v)]

GroupValues == {drv.t.cat_df[i].grp : i \in 1..Len(drv.t.cat_df)}

\* C19 as claimed: in both modes the records a call gives for a group
\* value are the records the Driver gives on that group value's rows alone.
C19_GroupsIndependent ==
    (drv.stage = "called" /\ drv.out.raised = "none") =>
        \A v \in GroupValues :
            LET alone == driver(drv.self, OnlyGroup(v), ColOf(drv.t.sch, drv.kind))
            IN /\ alone.raised = "none"
               /\ RecordsOfGroup(drv.out.records, v) = alone.records

\* C19 as amended: in error mode the records for a group value are those
\* the Driver gives on that group value's rows alone.  In sensitivity mode
\* the perturbation is taken over the whole table, so the deltas depend on
\* all rows; with the deltas attached and the incremental value given, the
\* records for a group value are those of grouping and reducing that group
\* value's rows alone.
C19_GroupsIndependentOnceScored ==
    (drv.stage = "called" /\ drv.out.raised = "none") =>
        \A v \in GroupValues :
            RecordsOfGroup(drv.out.records, v) =
                IF drv.self.called_class = "WhiteBoxError"
                THEN ErrorDriver(drv.self, OnlyGroup(v), ColOf(drv.t.sch, drv.kind)).records
                ELSE OutputFrame(drv.self,
                        SensitivityReduce(drv.self, drv.t.sch, RowsOfGroup(drv.t.cat_df, v),
                                          ColOf(drv.t.sch, drv.kind), drv.out.incremental_val))

C19_Witness ==
    /\ Called("WhiteBoxSensitivity", "continuous")
    /\ Len(drv.t.cat_df) = 3 /\ GroupValues = {0, 1}
    /\ drv.t.cat_df[1].grp = 0 /\ drv.t.cat_df[2].grp = 0
    /\ LET alone == driver(drv.self, OnlyGroup(0), N_age)
       IN /\ alone.raised = "none"
          /\ Len(alone.records) = 2
          /\ Len(RecordsOfGroup(drv.out.records, 0)) = 2
          /\ alone.records # RecordsOfGroup(drv.out.records, 0)

====
